---- MODULE Spec2Model ----
(***************************************************************************)
(* The access-request agent: the webhook handler, the agent loop of        *)
(* MCPClient (processAccessRequest / handleToolCalls) and the tool         *)
(* executor of MCPServer (executeTool and the three tools), against a      *)
(* governance backend and a decision model that answer nondeterministically.*)
(* One step of the model is the code between two await points.             *)
(***************************************************************************)
EXTENDS Naturals, Sequences, FiniteSets, TLC

VARIABLES
    mockMode,   \* config.mockMode
    tools,      \* mcpServer.tools, the registry (names of the definitions)
    backend,    \* the governance backend: grants, messages, requests received
    now,        \* Date.now()
    loop,       \* per invocation: the frames of the webhook handler,
                \* processAccessRequest and handleToolCalls
    exec        \* per invocation: the frame of executeTool and of the tool it runs

vars == <<mockMode, tools, backend, now, loop, exec>>

----------------------------------------------------------------------------
(* Bounds *)

\* cap on the model responses that carry a tool_calls field, per invocation
MaxTurns == 2
\* cap on the tool calls the model emits, per invocation
MaxToolCalls == 2
\* longest entitlementIds list of a create_grant call
MaxIds == 2

----------------------------------------------------------------------------
(* Values *)

Undefined == "<undefined>"

BundleIds == {"A", "B"}
UserIds == {"u1", "u2"}
RequestIds == {"req1", "req2"}

\* the NormalizedRequest of invocation r
mappedRequest(r) ==
    [userId |-> IF r = 1 THEN "u1" ELSE "u2",
     accessRequestId |-> IF r = 1 THEN "req1" ELSE "req2",
     accessLevelName |-> "Storage Object Admin",
     justification |-> "INC123 review storage objects"]

\* a registry that also lists a delete_grant tool
RegisteredToolsFour ==
    <<[name |-> "list_entitlement_bundles", required |-> {"applicationId"}],
      [name |-> "create_grant", required |-> {"userId", "entitlementIds", "reasoning"}],
      [name |-> "add_request_message", required |-> {"requestId", "message"}],
      [name |-> "delete_grant", required |-> {"grantId"}]>>

\* this.tools of the MCPServer constructor: the name and the `required` list of
\* each function definition
RegisteredTools ==
    <<[name |-> "list_entitlement_bundles", required |-> {"applicationId"}],
      [name |-> "create_grant", required |-> {"userId", "entitlementIds", "reasoning"}],
      [name |-> "add_request_message", required |-> {"requestId", "message"}]>>

\* the names a registry lists
NamesOf(registry) == {registry[k].name : k \in 1..Len(registry)}

\* a name the model can emit that no tool has
UnknownTools == {"delete_grant"}

ToolNames == NamesOf(RegisteredTools) \cup UnknownTools

\* the object JSON.parse yields: `present` is the set of its keys
MkArgs(present, userId, entitlementIds, requestId) ==
    [present |-> present,
     applicationId |-> "0oavij8jl7fx84fA5697",
     userId |-> userId,
     entitlementIds |-> entitlementIds,
     reasoning |-> "least privilege",
     requestId |-> requestId,
     message |-> "determination"]

\* args.f for a string-valued key
Arg(args, f) == IF f \in args.present THEN args[f] ELSE Undefined

SeqsUpTo(S, n) == UNION {[1..k -> S] : k \in 0..n}

IdLists == SeqsUpTo(BundleIds, MaxIds)

\* the arguments a model can emit for a tool, keys missing or not
ArgsOf(name) ==
    CASE name = "list_entitlement_bundles" ->
            {MkArgs(p, "u1", <<>>, "req1") : p \in SUBSET {"applicationId"}}
      [] name = "create_grant" ->
            {MkArgs(p \cup {"userId", "entitlementIds"}, u, ids, "req1") :
                p \in SUBSET {"reasoning"}, u \in UserIds, ids \in IdLists}
            \cup {MkArgs(p \cup {"entitlementIds"}, "u1", ids, "req1") :
                p \in SUBSET {"reasoning"}, ids \in IdLists}
            \cup {MkArgs(p \cup {"userId"}, u, <<>>, "req1") :
                p \in SUBSET {"reasoning"}, u \in UserIds}
            \cup {MkArgs(p, "u1", <<>>, "req1") : p \in SUBSET {"reasoning"}}
      [] name = "add_request_message" ->
            {MkArgs(p \cup {"requestId"}, "u1", <<>>, q) :
                p \in SUBSET {"message"}, q \in RequestIds}
            \cup {MkArgs(p, "u1", <<>>, "req1") : p \in SUBSET {"message"}}
      [] OTHER ->
            {MkArgs({}, "u1", <<>>, "req1"), MkArgs({"userId"}, "u1", <<>>, "req1")}

\* a tool call as the model emits it, before its id is assigned;
\* jsonOk: function.arguments parses as JSON
MkCall(name, jsonOk, args) == [name |-> name, jsonOk |-> jsonOk, args |-> args]

\* every tool call of the executor's input space
AllCalls ==
    UNION {{MkCall(n, TRUE, a) : a \in ArgsOf(n)} : n \in ToolNames}

\* the tool calls the model emits inside the agent loop
LoopCalls ==
    {MkCall("list_entitlement_bundles", TRUE, MkArgs({"applicationId"}, "u1", <<>>, "req1")),
     MkCall("create_grant", TRUE,
            MkArgs({"userId", "entitlementIds", "reasoning"}, "u1", <<"A", "B">>, "req1")),
     MkCall("create_grant", TRUE,
            MkArgs({"userId", "entitlementIds", "reasoning"}, "u2", <<"A">>, "req1")),
     MkCall("add_request_message", TRUE,
            MkArgs({"requestId", "message"}, "u1", <<>>, "req1")),
     MkCall("add_request_message", TRUE,
            MkArgs({"requestId", "message"}, "u1", <<>>, "req2")),
     MkCall("delete_grant", TRUE, MkArgs({}, "u1", <<>>, "req1")),
     MkCall("create_grant", FALSE, MkArgs({}, "u1", <<>>, "req1"))}

----------------------------------------------------------------------------
(* The governance backend and the clock *)

\* what the backend answers to one request: a 2xx with the expected body, an
\* HTTP error status, no answer at all, or a 2xx whose body lacks the expected fields
Outcomes == {"ok", "http_error", "network_error", "malformed"}

\* error.message of the axios rejection
AxiosMessage(outcome) ==
    IF outcome = "http_error" THEN <<"Request failed with status code 500">>
    ELSE <<"Network Error">>

\* the entitlement bundles the backend holds for the application
BackendBundles ==
    <<[id |-> "A", name |-> "Storage Object Viewer", description |-> "read-only",
       status |-> "ACTIVE", targetType |-> "APPLICATION"],
      [id |-> "B", name |-> "Storage Object Admin", description |-> "full control",
       status |-> "ACTIVE", targetType |-> "APPLICATION"]>>

\* the request the executor hands to axios
Request(op, r, target, about) == [op |-> op, by |-> r, target |-> target, about |-> about]

Issue(request) == [backend EXCEPT !.requests = Append(@, request)]

\* the id the backend gives the next grant it creates
NextGrantId == [kind |-> "okta", n |-> Len(backend.grants) + 1, rnd |-> 0]

UndefinedId == [kind |-> "undefined", n |-> 0, rnd |-> 0]

\* setTimeout delays of the mock paths, in milliseconds
MockListDelay == 500
MockGrantDelay == 300
MockMessageDelay == 300

\* the values of Math.random().toString(36).substr(2, 9) told apart
RandomValues == {0, 1}

Max(a, b) == IF a >= b THEN a ELSE b

----------------------------------------------------------------------------
(* MCPServer: the tool executor *)

\* a failure envelope that keeps a data key
FailureWithData(message) == [success |-> FALSE, error |-> message, data |-> <<>>]

\* { success: false, error: error.message }
Failure(message) == [success |-> FALSE, error |-> message]

NoResult == [none |-> TRUE]

IdleExec ==
    [phase |-> "idle", tool |-> "", applicationId |-> Undefined,
     ids |-> <<>>, userId |-> Undefined,
     reasoning |-> Undefined, requestId |-> Undefined, message |-> Undefined,
     i |-> 0, grantResults |-> <<>>, wake |-> 0, outcomes |-> <<>>,
     result |-> NoResult, thrown |-> <<>>]

\* the frame once the async function has returned `result`
Returned(frame, result) == [frame EXCEPT !.phase = "returned", !.result = result]

\* the frame once the async function has thrown an Error with `message`
Thrown(frame, message) == [frame EXCEPT !.phase = "thrown", !.thrown = message]

\* { success: true, data: bundles }
BundlesListed(bundles) == [success |-> TRUE, data |-> bundles]

\* the return value of the mock addRequestMessage
MessageMocked(frame) ==
    [success |-> TRUE, requestId |-> frame.requestId, message |-> frame.message]

\* the return value of the live addRequestMessage; data = response.data
MessageAdded(data) == [success |-> TRUE, data |-> data]

mockBundles ==
    <<[id |-> "enbmtw1byu10MX9wZ696", name |-> "Viewer - viewer",
       description |-> "read-only access to all resources", status |-> "ACTIVE"],
      [id |-> "enbmtw1buZQG1bZZZ696", name |-> "Storage Object Viewer - storage.objectViewer",
       description |-> "read-only access to Cloud Storage objects", status |-> "ACTIVE"],
      [id |-> "enbmtv1gportvxifd696", name |-> "Storage Object Admin - storage.objectAdmin",
       description |-> "full control over Cloud Storage objects", status |-> "ACTIVE"],
      [id |-> "enbmtv1gl03rpGl0G696", name |-> "BigQuery Data Editor - bigquery.dataEditor",
       description |-> "edit data and metadata in BigQuery tables", status |-> "ACTIVE"]>>

\* response.data.data.map(bundle => ({id, name, description, status}))
MapBundles(data) ==
    [k \in 1..Len(data) |->
        [id |-> data[k].id, name |-> data[k].name,
         description |-> data[k].description, status |-> data[k].status]]

\* listEntitlementBundles up to its first await
listEntitlementBundles(r, applicationId) ==
    LET frame == [IdleExec EXCEPT !.tool = "list_entitlement_bundles",
                                  !.applicationId = applicationId]
    IN
    IF mockMode
    THEN /\ exec' = [exec EXCEPT ![r] =
                        [frame EXCEPT !.phase = "list_sleep", !.wake = now + MockListDelay]]
         /\ UNCHANGED backend
    ELSE /\ exec' = [exec EXCEPT ![r] = [frame EXCEPT !.phase = "list_wait"]]
         /\ backend' = Issue(Request("GET entitlement-bundles", r, applicationId, ""))

\* the grant record createGrant pushes
GrantRecord(entitlementId, grantId) ==
    [entitlementBundleId |-> entitlementId, grantId |-> grantId, status |-> "created"]

GrantsCreated(frame) ==
    [success |-> TRUE, data |-> frame.grantResults, reasoning |-> frame.reasoning]

\* createGrant that refuses an empty entitlementIds list
createGrantRefuseEmpty(r, userId, applicationId, ids, reasoning) ==
    LET frame == [IdleExec EXCEPT !.tool = "create_grant", !.userId = userId,
                                  !.ids = ids.v, !.reasoning = reasoning, !.i = 1]
        TypeError == <<"Cannot read properties of undefined (reading 'length')">>
        Empty == <<"entitlementIds must not be empty">>
    IN
    IF mockMode
    THEN /\ exec' = [exec EXCEPT ![r] =
                IF ~ids.defined THEN Thrown(frame, TypeError)
                ELSE IF Len(ids.v) = 0 THEN Returned(frame, Failure(Empty))
                ELSE [frame EXCEPT !.phase = "grant_sleep", !.wake = now + MockGrantDelay]]
         /\ UNCHANGED backend
    ELSE IF ~ids.defined
         THEN /\ exec' = [exec EXCEPT ![r] = Returned(frame, Failure(TypeError))]
              /\ UNCHANGED backend
         ELSE IF Len(ids.v) = 0
         THEN /\ exec' = [exec EXCEPT ![r] = Returned(frame, Failure(Empty))]
              /\ UNCHANGED backend
         ELSE /\ exec' = [exec EXCEPT ![r] = [frame EXCEPT !.phase = "grant_wait"]]
              /\ backend' = Issue(Request("POST grants", r, userId, ids.v[1]))

\* createGrant up to its first await; ids = [defined, v] is args.entitlementIds
createGrant(r, userId, applicationId, ids, reasoning) ==
    LET frame == [IdleExec EXCEPT !.tool = "create_grant", !.userId = userId,
                                  !.ids = ids.v, !.reasoning = reasoning, !.i = 1]
        TypeError == <<"Cannot read properties of undefined (reading 'length')">>
    IN
    IF mockMode
    THEN /\ exec' = [exec EXCEPT ![r] =
                IF ~ids.defined THEN Thrown(frame, TypeError)
                ELSE IF Len(ids.v) = 0 THEN Returned(frame, GrantsCreated(frame))
                ELSE [frame EXCEPT !.phase = "grant_sleep", !.wake = now + MockGrantDelay]]
         /\ UNCHANGED backend
    ELSE IF ~ids.defined
         THEN /\ exec' = [exec EXCEPT ![r] = Returned(frame, Failure(TypeError))]
              /\ UNCHANGED backend
         ELSE IF Len(ids.v) = 0
         THEN /\ exec' = [exec EXCEPT ![r] = Returned(frame, GrantsCreated(frame))]
              /\ UNCHANGED backend
         ELSE /\ exec' = [exec EXCEPT ![r] = [frame EXCEPT !.phase = "grant_wait"]]
              /\ backend' = Issue(Request("POST grants", r, userId, ids.v[1]))

\* addRequestMessage on an executor that keeps its working state between
\* tool executions: the frame of the previous execution is reused
addRequestMessageStale(r, requestId, message) ==
    LET frame == [exec[r] EXCEPT !.tool = "add_request_message",
                                 !.requestId = requestId, !.message = message]
    IN
    IF mockMode
    THEN /\ exec' = [exec EXCEPT ![r] =
                        [frame EXCEPT !.phase = "message_sleep", !.wake = now + MockMessageDelay]]
         /\ UNCHANGED backend
    ELSE /\ exec' = [exec EXCEPT ![r] = [frame EXCEPT !.phase = "message_wait"]]
         /\ backend' = Issue(Request("POST messages", r, requestId, message))

\* addRequestMessage up to its first await
addRequestMessage(r, requestId, message) ==
    LET frame == [IdleExec EXCEPT !.tool = "add_request_message",
                                  !.requestId = requestId, !.message = message]
    IN
    IF mockMode
    THEN /\ exec' = [exec EXCEPT ![r] =
                        [frame EXCEPT !.phase = "message_sleep", !.wake = now + MockMessageDelay]]
         /\ UNCHANGED backend
    ELSE /\ exec' = [exec EXCEPT ![r] = [frame EXCEPT !.phase = "message_wait"]]
         /\ backend' = Issue(Request("POST messages", r, requestId, message))

ArgIds(args) ==
    [defined |-> "entitlementIds" \in args.present,
     v |-> IF "entitlementIds" \in args.present THEN args.entitlementIds ELSE <<>>]

\* executeTool whose switch has no default case of its own: an unknown name
\* runs the last case
executeToolNoDefault(r, toolName, args) ==
    CASE toolName = "list_entitlement_bundles" ->
            listEntitlementBundles(r, Arg(args, "applicationId"))
      [] toolName = "create_grant" ->
            createGrant(r, Arg(args, "userId"), Undefined, ArgIds(args), Arg(args, "reasoning"))
      [] OTHER ->
            addRequestMessage(r, Arg(args, "requestId"), Arg(args, "message"))

\* executeTool up to the first await of the tool it dispatches to
executeTool(r, toolName, args) ==
    CASE toolName = "list_entitlement_bundles" ->
            listEntitlementBundles(r, Arg(args, "applicationId"))
      [] toolName = "create_grant" ->
            createGrant(r, Arg(args, "userId"), Undefined, ArgIds(args), Arg(args, "reasoning"))
      [] toolName = "add_request_message" ->
            addRequestMessage(r, Arg(args, "requestId"), Arg(args, "message"))
      [] OTHER ->
            /\ exec' = [exec EXCEPT ![r] =
                    Thrown([IdleExec EXCEPT !.tool = toolName], <<"Unknown MCP tool: ", toolName>>)]
            /\ UNCHANGED backend

----------------------------------------------------------------------------
(* MCPServer: the tools after their await points *)

\* what the backend returns for the filter target.externalId eq applicationId
BundlesOf(applicationId) ==
    IF applicationId = "0oavij8jl7fx84fA5697" THEN BackendBundles ELSE <<>>

\* mock listEntitlementBundles after its setTimeout
listEntitlementBundlesMock(r) ==
    /\ exec[r].phase = "list_sleep"
    /\ now' = Max(now, exec[r].wake)
    /\ exec' = [exec EXCEPT ![r] = Returned(@, BundlesListed(mockBundles))]
    /\ UNCHANGED <<mockMode, tools, backend, loop>>

\* live listEntitlementBundles that keeps a paging cursor between calls: a
\* listing after the first returns only what follows the first bundle
listEntitlementBundlesLiveCursor(r) ==
    /\ exec[r].phase = "list_wait"
    /\ \E outcome \in Outcomes :
        LET frame == [exec[r] EXCEPT !.outcomes = Append(@, outcome)]
            bundles == BundlesOf(frame.applicationId)
            page == IF Len(backend.requests) > 1 /\ Len(bundles) > 0
                    THEN Tail(bundles) ELSE bundles
        IN
        exec' = [exec EXCEPT ![r] =
            CASE outcome = "ok" -> Returned(frame, BundlesListed(MapBundles(page)))
              [] outcome = "malformed" ->
                    Returned(frame,
                             Failure(<<"Cannot read properties of undefined (reading 'map')">>))
              [] OTHER -> Returned(frame, Failure(AxiosMessage(outcome)))]
    /\ UNCHANGED <<mockMode, tools, backend, now, loop>>

\* live listEntitlementBundles after axios.get settles
listEntitlementBundlesLive(r) ==
    /\ exec[r].phase = "list_wait"
    /\ \E outcome \in Outcomes :
        LET frame == [exec[r] EXCEPT !.outcomes = Append(@, outcome)] IN
        exec' = [exec EXCEPT ![r] =
            CASE outcome = "ok" ->
                    Returned(frame, BundlesListed(MapBundles(BundlesOf(frame.applicationId))))
              [] outcome = "malformed" ->
                    Returned(frame,
                             Failure(<<"Cannot read properties of undefined (reading 'map')">>))
              [] OTHER -> Returned(frame, Failure(AxiosMessage(outcome)))]
    /\ UNCHANGED <<mockMode, tools, backend, now, loop>>

\* a mock grant id without its Date.now() part
mockGrantIdNoClock(time, rnd) == [kind |-> "mock", n |-> 0, rnd |-> rnd]

\* the mock grant id `grant-${Date.now()}-${Math.random()...}`
mockGrantId(time, rnd) == [kind |-> "mock", n |-> time, rnd |-> rnd]

\* mock createGrant: one iteration of its for loop, after the setTimeout
createGrantMock(r) ==
    /\ exec[r].phase = "grant_sleep"
    /\ now' = Max(now, exec[r].wake)
    /\ \E rnd \in RandomValues :
        LET frame == exec[r]
            pushed == [frame EXCEPT !.grantResults =
                          Append(@, GrantRecord(frame.ids[frame.i], mockGrantId(now', rnd)))]
        IN exec' = [exec EXCEPT ![r] =
                IF frame.i = Len(frame.ids)
                THEN Returned(pushed, GrantsCreated(pushed))
                ELSE [pushed EXCEPT !.i = @ + 1, !.wake = now' + MockGrantDelay]]
    /\ UNCHANGED <<mockMode, tools, backend, loop>>

\* the backend creating a grant
BackendGrant(store, entitlementId, userId) ==
    [store EXCEPT !.grants =
        Append(@, [grantId |-> [kind |-> "okta", n |-> Len(store.grants) + 1, rnd |-> 0],
                   entitlementBundleId |-> entitlementId, userId |-> userId])]

\* live createGrant with the try/catch inside the for loop: a failed request
\* is skipped and the next id is attempted
createGrantLiveContinue(r) ==
    /\ exec[r].phase = "grant_wait"
    /\ \E outcome \in Outcomes :
        LET frame == [exec[r] EXCEPT !.outcomes = Append(@, outcome)]
            entitlementId == frame.ids[frame.i]
            ok == outcome \in {"ok", "malformed"}
            grantId == IF outcome = "ok" THEN NextGrantId ELSE UndefinedId
            pushed == IF ok
                      THEN [frame EXCEPT !.grantResults =
                                Append(@, GrantRecord(entitlementId, grantId))]
                      ELSE frame
            store == IF ok THEN BackendGrant(backend, entitlementId, frame.userId) ELSE backend
        IN
        IF frame.i = Len(frame.ids)
        THEN /\ exec' = [exec EXCEPT ![r] =
                    IF ok THEN Returned(pushed, GrantsCreated(pushed))
                    ELSE Returned(pushed, Failure(AxiosMessage(outcome)))]
             /\ backend' = store
        ELSE /\ exec' = [exec EXCEPT ![r] = [pushed EXCEPT !.i = @ + 1]]
             /\ backend' = [store EXCEPT !.requests =
                    Append(@, Request("POST grants", r, frame.userId, frame.ids[frame.i + 1]))]
    /\ UNCHANGED <<mockMode, tools, now, loop>>

\* live createGrant with a compensation step: when a request is rejected the
\* grants this call created are revoked before the failure is returned
createGrantLiveRollback(r) ==
    /\ exec[r].phase = "grant_wait"
    /\ \E outcome \in Outcomes :
        LET frame == [exec[r] EXCEPT !.outcomes = Append(@, outcome)]
            entitlementId == frame.ids[frame.i]
            grantId == IF outcome = "ok" THEN NextGrantId ELSE UndefinedId
            pushed == [frame EXCEPT !.grantResults =
                          Append(@, GrantRecord(entitlementId, grantId))]
            granted == BackendGrant(backend, entitlementId, frame.userId)
        IN
        IF outcome \in {"ok", "malformed"}
        THEN IF frame.i = Len(frame.ids)
             THEN /\ exec' = [exec EXCEPT ![r] = Returned(pushed, GrantsCreated(pushed))]
                  /\ backend' = granted
             ELSE /\ exec' = [exec EXCEPT ![r] = [pushed EXCEPT !.i = @ + 1]]
                  /\ backend' = [granted EXCEPT !.requests =
                        Append(@, Request("POST grants", r, frame.userId, frame.ids[frame.i + 1]))]
        ELSE /\ exec' = [exec EXCEPT ![r] = Returned(frame, Failure(AxiosMessage(outcome)))]
             /\ backend' = [backend EXCEPT !.grants =
                    SubSeq(@, 1, Len(@) - Len(frame.grantResults))]
    /\ UNCHANGED <<mockMode, tools, now, loop>>

\* live createGrant: one iteration of its for loop, after axios.post settles
createGrantLive(r) ==
    /\ exec[r].phase = "grant_wait"
    /\ \E outcome \in Outcomes :
        LET frame == [exec[r] EXCEPT !.outcomes = Append(@, outcome)]
            entitlementId == frame.ids[frame.i]
            \* response.data.id
            grantId == IF outcome = "ok" THEN NextGrantId ELSE UndefinedId
            pushed == [frame EXCEPT !.grantResults =
                          Append(@, GrantRecord(entitlementId, grantId))]
            granted == BackendGrant(backend, entitlementId, frame.userId)
        IN
        IF outcome \in {"ok", "malformed"}
        THEN IF frame.i = Len(frame.ids)
             THEN /\ exec' = [exec EXCEPT ![r] = Returned(pushed, GrantsCreated(pushed))]
                  /\ backend' = granted
             ELSE /\ exec' = [exec EXCEPT ![r] = [pushed EXCEPT !.i = @ + 1]]
                  /\ backend' = [granted EXCEPT !.requests =
                        Append(@, Request("POST grants", r, frame.userId, frame.ids[frame.i + 1]))]
        ELSE /\ exec' = [exec EXCEPT ![r] = Returned(frame, Failure(AxiosMessage(outcome)))]
             /\ UNCHANGED backend
    /\ UNCHANGED <<mockMode, tools, now, loop>>

\* mock addRequestMessage after its setTimeout
addRequestMessageMock(r) ==
    /\ exec[r].phase = "message_sleep"
    /\ now' = Max(now, exec[r].wake)
    /\ exec' = [exec EXCEPT ![r] = Returned(@, MessageMocked(@))]
    /\ UNCHANGED <<mockMode, tools, backend, loop>>

\* live addRequestMessage that posts the message once more when the first
\* post is rejected
addRequestMessageLiveRetry(r) ==
    /\ exec[r].phase = "message_wait"
    /\ \E outcome \in Outcomes :
        LET frame == [exec[r] EXCEPT !.outcomes = Append(@, outcome)]
            posted == [backend EXCEPT !.messages =
                          Append(@, [requestId |-> frame.requestId, message |-> frame.message])]
        IN
        CASE outcome = "ok" ->
                /\ exec' = [exec EXCEPT ![r] =
                        Returned(frame, MessageAdded([id |-> Len(posted.messages),
                                                      message |-> frame.message]))]
                /\ backend' = posted
          [] outcome = "malformed" ->
                /\ exec' = [exec EXCEPT ![r] = Returned(frame, MessageAdded([raw |-> "<html>"]))]
                /\ backend' = posted
          [] OTHER ->
                IF Len(frame.outcomes) = 1
                THEN /\ exec' = [exec EXCEPT ![r] = frame]
                     /\ backend' = Issue(Request("POST messages", r, frame.requestId,
                                                 frame.message))
                ELSE /\ exec' = [exec EXCEPT ![r] =
                            Returned(frame, Failure(AxiosMessage(outcome)))]
                     /\ UNCHANGED backend
    /\ UNCHANGED <<mockMode, tools, now, loop>>

\* live addRequestMessage after axios.post settles
addRequestMessageLive(r) ==
    /\ exec[r].phase = "message_wait"
    /\ \E outcome \in Outcomes :
        LET frame == [exec[r] EXCEPT !.outcomes = Append(@, outcome)]
            posted == [backend EXCEPT !.messages =
                          Append(@, [requestId |-> frame.requestId, message |-> frame.message])]
        IN
        CASE outcome = "ok" ->
                /\ exec' = [exec EXCEPT ![r] =
                        Returned(frame, MessageAdded([id |-> Len(posted.messages),
                                                      message |-> frame.message]))]
                /\ backend' = posted
          [] outcome = "malformed" ->
                /\ exec' = [exec EXCEPT ![r] = Returned(frame, MessageAdded([raw |-> "<html>"]))]
                /\ backend' = posted
          [] OTHER ->
                /\ exec' = [exec EXCEPT ![r] = Returned(frame, Failure(AxiosMessage(outcome)))]
                /\ UNCHANGED backend
    /\ UNCHANGED <<mockMode, tools, now, loop>>

----------------------------------------------------------------------------
(* MCPClient: the agent loop *)

\* the system prompt processAccessRequest builds from webhookData
systemPrompt(webhookData) ==
    [text |-> "You are a SENIOR SECURITY ENGINEER evaluating access requests",
     requestId |-> webhookData.accessRequestId,
     userId |-> webhookData.userId,
     accessLevelName |-> webhookData.accessLevelName,
     justification |-> webhookData.justification]

SystemMessage(content) == [role |-> "system", content |-> content]

\* the first message of handleToolCalls
LoopSystemMessage == SystemMessage([text |-> "Process this access request autonomously."])

\* JSON.stringify of a tool result: keys whose value is undefined are left out
StringKeys == {"reasoning", "requestId", "message"}

JSONStringify(result) ==
    [f \in {g \in DOMAIN result : ~(g \in StringKeys /\ result[g] = Undefined)} |-> result[f]]

ToolMessage(id, result) ==
    [role |-> "tool", tool_call_id |-> id, content |-> JSONStringify(result)]

\* nothing written to res yet
NoResponse == [none |-> TRUE]

IdleLoop(r) ==
    [pc |-> "IDLE", webhookData |-> mappedRequest(r), messages |-> <<>>,
     has_tool_calls |-> FALSE, tool_calls |-> <<>>, idx |-> 0,
     sent |-> <<>>, modelRequests |-> 0, turns |-> 0, emitted |-> 0,
     cause |-> "", http |-> 0, res |-> NoResponse]

\* the webhook handler up to the first model request of processAccessRequest
processAccessRequest(r) ==
    /\ loop[r].pc = "IDLE"
    /\ loop' = [loop EXCEPT ![r] =
            [@ EXCEPT !.pc = "AWAIT_INITIAL",
                      !.sent = <<SystemMessage(systemPrompt(loop[r].webhookData))>>,
                      !.modelRequests = 1]]
    /\ UNCHANGED <<mockMode, tools, backend, now, exec>>

\* the tool calls of one response, with the ids the model gives them
WithIds(calls, from) ==
    [k \in 1..Len(calls) |->
        [id |-> from + k, name |-> calls[k].name, jsonOk |-> calls[k].jsonOk,
         args |-> calls[k].args]]

\* the responses the model can give to invocation r: no tool_calls field, or a
\* tool_calls list (possibly empty) while the caps allow it
ToolCallLists(r) ==
    IF loop[r].turns < MaxTurns
    THEN SeqsUpTo(LoopCalls, MaxToolCalls - loop[r].emitted)
    ELSE {}

\* the while test with an iteration cap: after the first turn a response is
\* taken as final even when it asks for tool calls
whileTestCapped(frame, present, calls) ==
    IF present /\ frame.turns < 1
    THEN [frame EXCEPT !.pc = "FOR_NEXT",
                       !.has_tool_calls = TRUE,
                       !.tool_calls = WithIds(calls, frame.emitted),
                       !.messages = Append(@, [role |-> "assistant",
                                               tool_calls |-> WithIds(calls, frame.emitted)]),
                       !.idx = 1,
                       !.turns = @ + 1,
                       !.emitted = @ + Len(calls)]
    ELSE [frame EXCEPT !.pc = "TERMINATED", !.has_tool_calls = present, !.tool_calls = <<>>]

\* the while test of a loop that trims its context: a new turn starts the
\* conversation over with the system message and the new assistant message
whileTestTrim(frame, present, calls) ==
    IF present
    THEN [frame EXCEPT !.pc = "FOR_NEXT",
                       !.has_tool_calls = TRUE,
                       !.tool_calls = WithIds(calls, frame.emitted),
                       !.messages = <<LoopSystemMessage,
                                      [role |-> "assistant",
                                       tool_calls |-> WithIds(calls, frame.emitted)]>>,
                       !.idx = 1,
                       !.turns = @ + 1,
                       !.emitted = @ + Len(calls)]
    ELSE [frame EXCEPT !.pc = "TERMINATED", !.has_tool_calls = FALSE, !.tool_calls = <<>>]

\* the test of the while loop on a response, and the push of its message
whileTest(frame, present, calls) ==
    IF present
    THEN [frame EXCEPT !.pc = "FOR_NEXT",
                       !.has_tool_calls = TRUE,
                       !.tool_calls = WithIds(calls, frame.emitted),
                       !.messages = Append(@, [role |-> "assistant",
                                               tool_calls |-> WithIds(calls, frame.emitted)]),
                       !.idx = 1,
                       !.turns = @ + 1,
                       !.emitted = @ + Len(calls)]
    ELSE [frame EXCEPT !.pc = "TERMINATED", !.has_tool_calls = FALSE, !.tool_calls = <<>>]

\* the model call failing: the error leaves processAccessRequest
modelError(r) ==
    /\ loop[r].pc \in {"AWAIT_INITIAL", "AWAIT_FOLLOWUP"}
    /\ loop' = [loop EXCEPT ![r] = [@ EXCEPT !.pc = "ABORTED", !.cause = "model"]]
    /\ UNCHANGED <<mockMode, tools, backend, now, exec>>

\* the first response arrives: handleToolCalls starts
initialResponse(r) ==
    /\ loop[r].pc = "AWAIT_INITIAL"
    /\ LET started == [loop[r] EXCEPT !.messages = <<LoopSystemMessage>>] IN
       \/ loop' = [loop EXCEPT ![r] = whileTest(started, FALSE, <<>>)]
       \/ \E calls \in ToolCallLists(r) :
            loop' = [loop EXCEPT ![r] = whileTest(started, TRUE, calls)]
    /\ UNCHANGED <<mockMode, tools, backend, now, exec>>

\* a follow-up response arrives inside the while loop
followUpResponse(r) ==
    /\ loop[r].pc = "AWAIT_FOLLOWUP"
    /\ \/ loop' = [loop EXCEPT ![r] = whileTest(@, FALSE, <<>>)]
       \/ \E calls \in ToolCallLists(r) :
            loop' = [loop EXCEPT ![r] = whileTest(loop[r], TRUE, calls)]
    /\ UNCHANGED <<mockMode, tools, backend, now, exec>>

\* startToolCall with JSON.parse inside the try: unparseable arguments become
\* a failed tool message and the for loop goes on
startToolCallParseCaught(r) ==
    /\ loop[r].pc = "FOR_NEXT"
    /\ loop[r].idx <= Len(loop[r].tool_calls)
    /\ LET toolCall == loop[r].tool_calls[loop[r].idx] IN
       IF ~toolCall.jsonOk
       THEN /\ loop' = [loop EXCEPT ![r] =
                    [@ EXCEPT !.messages =
                                Append(@, ToolMessage(toolCall.id,
                                                      Failure(<<"Unexpected token in JSON">>))),
                              !.idx = @ + 1]]
            /\ UNCHANGED <<backend, exec>>
       ELSE /\ loop' = [loop EXCEPT ![r] = [@ EXCEPT !.pc = "EXECUTING"]]
            /\ executeTool(r, toolCall.name, toolCall.args)
    /\ UNCHANGED <<mockMode, tools, now>>

\* the for loop takes the next tool call: JSON.parse, then executeTool
startToolCall(r) ==
    /\ loop[r].pc = "FOR_NEXT"
    /\ loop[r].idx <= Len(loop[r].tool_calls)
    /\ LET toolCall == loop[r].tool_calls[loop[r].idx] IN
       IF ~toolCall.jsonOk
       THEN /\ loop' = [loop EXCEPT ![r] = [@ EXCEPT !.pc = "ABORTED", !.cause = "parse"]]
            /\ UNCHANGED <<backend, exec>>
       ELSE /\ loop' = [loop EXCEPT ![r] = [@ EXCEPT !.pc = "EXECUTING"]]
            /\ executeTool(r, toolCall.name, toolCall.args)
    /\ UNCHANGED <<mockMode, tools, now>>

\* recordToolResult without the catch around executeTool: a throw leaves
\* handleToolCalls
recordToolResultNoCatch(r) ==
    /\ loop[r].pc = "EXECUTING"
    /\ exec[r].phase \in {"returned", "thrown"}
    /\ LET toolCall == loop[r].tool_calls[loop[r].idx] IN
       loop' = [loop EXCEPT ![r] =
              IF exec[r].phase = "thrown"
              THEN [@ EXCEPT !.pc = "ABORTED", !.cause = "tool"]
              ELSE [@ EXCEPT !.pc = "FOR_NEXT",
                             !.messages = Append(@, ToolMessage(toolCall.id, exec[r].result)),
                             !.idx = @ + 1]]
    /\ UNCHANGED <<mockMode, tools, backend, now, exec>>

\* recordToolResult whose tool message carries the call's position in its
\* turn instead of toolCall.id
recordToolResultPosition(r) ==
    /\ loop[r].pc = "EXECUTING"
    /\ exec[r].phase \in {"returned", "thrown"}
    /\ LET result == IF exec[r].phase = "returned" THEN exec[r].result
                     ELSE Failure(exec[r].thrown)
       IN loop' = [loop EXCEPT ![r] =
              [@ EXCEPT !.pc = "FOR_NEXT",
                        !.messages = Append(@, ToolMessage(loop[r].idx, result)),
                        !.idx = @ + 1]]
    /\ UNCHANGED <<mockMode, tools, backend, now, exec>>

\* recordToolResult with the messages array kept on the shared mcpClient: the
\* tool message is pushed onto the conversation of every invocation that is
\* inside handleToolCalls
recordToolResultShared(r) ==
    /\ loop[r].pc = "EXECUTING"
    /\ exec[r].phase \in {"returned", "thrown"}
    /\ LET toolCall == loop[r].tool_calls[loop[r].idx]
           result == IF exec[r].phase = "returned" THEN exec[r].result
                     ELSE Failure(exec[r].thrown)
       IN loop' = [q \in DOMAIN loop |->
              IF q = r
              THEN [loop[q] EXCEPT !.pc = "FOR_NEXT",
                                   !.messages = Append(@, ToolMessage(toolCall.id, result)),
                                   !.idx = @ + 1]
              ELSE IF loop[q].pc \in {"FOR_NEXT", "EXECUTING", "AWAIT_FOLLOWUP"}
                   THEN [loop[q] EXCEPT !.messages = Append(@, ToolMessage(toolCall.id, result))]
                   ELSE loop[q]]
    /\ UNCHANGED <<mockMode, tools, backend, now, exec>>

\* executeTool has settled: the try or the catch pushes the tool message
recordToolResult(r) ==
    /\ loop[r].pc = "EXECUTING"
    /\ exec[r].phase \in {"returned", "thrown"}
    /\ LET toolCall == loop[r].tool_calls[loop[r].idx]
           result == IF exec[r].phase = "returned" THEN exec[r].result
                     ELSE Failure(exec[r].thrown)
       IN loop' = [loop EXCEPT ![r] =
              [@ EXCEPT !.pc = "FOR_NEXT",
                        !.messages = Append(@, ToolMessage(toolCall.id, result)),
                        !.idx = @ + 1]]
    /\ UNCHANGED <<mockMode, tools, backend, now, exec>>

\* requestNextTurn that does not wait for the for loop to end
requestNextTurnEarly(r) ==
    /\ loop[r].pc = "FOR_NEXT"
    /\ loop' = [loop EXCEPT ![r] =
            [@ EXCEPT !.pc = "AWAIT_FOLLOWUP", !.sent = loop[r].messages,
                      !.modelRequests = @ + 1]]
    /\ UNCHANGED <<mockMode, tools, backend, now, exec>>

\* the for loop is over: the next model turn is requested with `messages`
requestNextTurn(r) ==
    /\ loop[r].pc = "FOR_NEXT"
    /\ loop[r].idx > Len(loop[r].tool_calls)
    /\ loop' = [loop EXCEPT ![r] =
            [@ EXCEPT !.pc = "AWAIT_FOLLOWUP", !.sent = loop[r].messages,
                      !.modelRequests = @ + 1]]
    /\ UNCHANGED <<mockMode, tools, backend, now, exec>>

\* error.message of what left processAccessRequest
ErrorMessage(cause) ==
    IF cause = "parse" THEN <<"Unexpected token in JSON">>
    ELSE <<"decision-model call failed">>

\* the body of the 200 response
Received(webhookData) ==
    [status |-> "received", message |-> "Access request processing initiated",
     oigRequestId |-> webhookData.accessRequestId]

\* the body of the 500 response
Failed(cause) ==
    [status |-> "error", message |-> "Failed to process webhook",
     error |-> ErrorMessage(cause)]

\* a webhook handler whose processAccessRequest swallows the error it caught
respondSwallowed(r) ==
    /\ loop[r].pc \in {"TERMINATED", "ABORTED"}
    /\ loop[r].http = 0
    /\ loop' = [loop EXCEPT ![r] =
            [@ EXCEPT !.http = 200, !.res = Received(loop[r].webhookData)]]
    /\ UNCHANGED <<mockMode, tools, backend, now, exec>>

\* a webhook handler that does not await processAccessRequest before answering
respondEarly(r) ==
    /\ loop[r].pc # "IDLE"
    /\ loop[r].http = 0
    /\ loop' = [loop EXCEPT ![r] =
            [@ EXCEPT !.http = 200, !.res = Received(loop[r].webhookData)]]
    /\ UNCHANGED <<mockMode, tools, backend, now, exec>>

\* a webhook handler that answers 500 when a tool call of the loop failed
respondOutcome(r) ==
    /\ loop[r].pc \in {"TERMINATED", "ABORTED"}
    /\ loop[r].http = 0
    /\ LET ms == loop[r].messages
           failed == \E q \in 1..Len(ms) : ms[q].role = "tool" /\ ~ms[q].content.success
       IN loop' = [loop EXCEPT ![r] =
            IF loop[r].pc = "TERMINATED" /\ ~failed
            THEN [@ EXCEPT !.http = 200, !.res = Received(loop[r].webhookData)]
            ELSE [@ EXCEPT !.http = 500, !.res = Failed(loop[r].cause)]]
    /\ UNCHANGED <<mockMode, tools, backend, now, exec>>

\* the webhook handler answers
respond(r) ==
    /\ loop[r].pc \in {"TERMINATED", "ABORTED"}
    /\ loop[r].http = 0
    /\ loop' = [loop EXCEPT ![r] =
            IF loop[r].pc = "TERMINATED"
            THEN [@ EXCEPT !.http = 200, !.res = Received(loop[r].webhookData)]
            ELSE [@ EXCEPT !.http = 500, !.res = Failed(loop[r].cause)]]
    /\ UNCHANGED <<mockMode, tools, backend, now, exec>>

----------------------------------------------------------------------------
(* Specifications *)

EmptyBackend == [grants |-> <<>>, messages |-> <<>>, requests |-> <<>>]

\* the process after construction, one webhook request to come
Init ==
    /\ mockMode \in BOOLEAN
    /\ tools = RegisteredTools
    /\ backend = EmptyBackend
    /\ now = 0
    /\ loop = [r \in {1} |-> IdleLoop(r)]
    /\ exec = [r \in {1} |-> IdleExec]

Next ==
    \/ \E r \in DOMAIN loop : processAccessRequest(r)
    \/ \E r \in DOMAIN loop : modelError(r)
    \/ \E r \in DOMAIN loop : initialResponse(r)
    \/ \E r \in DOMAIN loop : followUpResponse(r)
    \/ \E r \in DOMAIN loop : startToolCall(r)
    \/ \E r \in DOMAIN loop : recordToolResult(r)
    \/ \E r \in DOMAIN loop : requestNextTurn(r)
    \/ \E r \in DOMAIN loop : respond(r)
    \/ \E r \in DOMAIN loop : listEntitlementBundlesMock(r)
    \/ \E r \in DOMAIN loop : listEntitlementBundlesLive(r)
    \/ \E r \in DOMAIN loop : createGrantMock(r)
    \/ \E r \in DOMAIN loop : createGrantLive(r)
    \/ \E r \in DOMAIN loop : addRequestMessageMock(r)
    \/ \E r \in DOMAIN loop : addRequestMessageLive(r)

Spec == Init /\ [][Next]_vars

\* every pending model call, backend call and timer settles, and every
\* continuation that is ready runs
SpecLive == Spec /\ WF_vars(Next)

\* the handler's continuation runs once processAccessRequest has settled
SpecFair == Spec /\ WF_vars(\E r \in DOMAIN loop : respond(r))

\* two webhook requests being handled by the one mcpClient and the one
\* mcpServer; the decision model answers each with at most one turn of at
\* most one tool call
InitConc ==
    /\ mockMode \in BOOLEAN
    /\ tools = RegisteredTools
    /\ backend = EmptyBackend
    /\ now = 0
    /\ loop = [r \in {1, 2} |->
                [IdleLoop(r) EXCEPT !.turns = MaxTurns - 1, !.emitted = MaxToolCalls - 1]]
    /\ exec = [r \in {1, 2} |-> IdleExec]

SpecConc == InitConc /\ [][Next]_vars

\* the agent loop at the first tool call of a response that asks for one tool
\* call, any call of the executor's input space
InitExec ==
    /\ mockMode \in BOOLEAN
    /\ tools = RegisteredTools
    /\ backend = EmptyBackend
    /\ now = 0
    /\ \E call \in AllCalls :
        loop = [r \in {1} |->
            [whileTest([IdleLoop(r) EXCEPT
                            !.sent = <<SystemMessage(systemPrompt(mappedRequest(r)))>>,
                            !.modelRequests = 1,
                            !.messages = <<LoopSystemMessage>>,
                            !.turns = MaxTurns - 1],
                       TRUE, <<call>>)
             EXCEPT !.emitted = MaxToolCalls]]
    /\ exec = [r \in {1} |-> IdleExec]

NextExec ==
    \/ \E r \in DOMAIN loop : modelError(r)
    \/ \E r \in DOMAIN loop : followUpResponse(r)
    \/ \E r \in DOMAIN loop : startToolCall(r)
    \/ \E r \in DOMAIN loop : recordToolResult(r)
    \/ \E r \in DOMAIN loop : requestNextTurn(r)
    \/ \E r \in DOMAIN loop : respond(r)
    \/ \E r \in DOMAIN loop : listEntitlementBundlesMock(r)
    \/ \E r \in DOMAIN loop : listEntitlementBundlesLive(r)
    \/ \E r \in DOMAIN loop : createGrantMock(r)
    \/ \E r \in DOMAIN loop : createGrantLive(r)
    \/ \E r \in DOMAIN loop : addRequestMessageMock(r)
    \/ \E r \in DOMAIN loop : addRequestMessageLive(r)

SpecExec == InitExec /\ [][NextExec]_vars

----------------------------------------------------------------------------
(* Properties *)

Invocations == DOMAIN loop

\* the tool call the for loop is at
CurrentCall(r) == loop[r].tool_calls[loop[r].idx]

\* executeTool has been called for the current tool call and not yet recorded
Executing(r) == loop[r].pc = "EXECUTING"

Settled(r) == exec[r].phase \in {"returned", "thrown"}

\* the backend requests of kind op received so far
RequestsOf(op) == {k \in 1..Len(backend.requests) : backend.requests[k].op = op}

\* C1: a tool name outside the registry makes executeTool throw the
\* "Unknown MCP tool" error: it never returns a ToolResult, the loop records a
\* failed result for it, and the backend receives no request
C1_UnknownToolThrows ==
    \A r \in Invocations :
        \A k \in 1..Len(loop[r].tool_calls) :
            LET call == loop[r].tool_calls[k] IN
            call.name \notin NamesOf(tools) =>
                /\ backend.requests = <<>>
                /\ (Executing(r) /\ loop[r].idx = k) =>
                        /\ exec[r].phase = "thrown"
                        /\ exec[r].thrown = <<"Unknown MCP tool: ", call.name>>
                        /\ exec[r].result = NoResult
                /\ loop[r].idx > k =>
                        LET m == loop[r].messages[Len(loop[r].messages)] IN
                        /\ m.tool_call_id = call.id
                        /\ m.content = Failure(<<"Unknown MCP tool: ", call.name>>)

C1_Witness ==
    \E r \in Invocations :
        /\ Executing(r)
        /\ CurrentCall(r).name \notin NamesOf(tools)
        /\ CurrentCall(r).args.present # {}
        /\ exec[r].phase = "thrown"

\* executeTool threw, or returned a ToolResult with success = false
ToolFailed(r) ==
    \/ exec[r].phase = "thrown"
    \/ exec[r].phase = "returned" /\ ~exec[r].result.success

\* the error message of the failed tool execution
ToolError(r) == IF exec[r].phase = "thrown" THEN exec[r].thrown ELSE exec[r].result.error

\* the tool messages of the current turn answer its tool calls, one each, in order
TurnAnswered(r, ms) ==
    LET n == Len(loop[r].tool_calls)
        base == Len(ms) - n
    IN /\ base >= 1
       /\ ms[base].role = "assistant"
       /\ \A k \in 1..n :
            /\ ms[base + k].role = "tool"
            /\ ms[base + k].tool_call_id = loop[r].tool_calls[k].id
            /\ loop[r].tool_calls[k].name \notin NamesOf(tools) =>
                    ms[base + k].content.success = FALSE

\* C2: a failing tool call (executeTool throws or returns success = false) is
\* recorded as a tool message with success = false and the loop goes on to the
\* next tool call of the turn; the next model turn is requested with a result
\* for every call of the turn, the failed ones included; the loop is left
\* only through a model error or unparseable arguments, never a tool failure
C2_ToolFailureKeepsLoop ==
    /\ [][\A r \in Invocations :
            (Executing(r) /\ Settled(r) /\ ToolFailed(r) /\ loop'[r] # loop[r]) =>
                /\ loop'[r].pc = "FOR_NEXT"
                /\ loop'[r].idx = loop[r].idx + 1
                /\ loop'[r].messages =
                      Append(loop[r].messages,
                             [role |-> "tool", tool_call_id |-> CurrentCall(r).id,
                              content |-> Failure(ToolError(r))])]_vars
    /\ [][\A r \in Invocations :
            (loop'[r].pc = "ABORTED" /\ loop[r].pc # "ABORTED") =>
                \/ loop[r].pc \in {"AWAIT_INITIAL", "AWAIT_FOLLOWUP"}
                \/ loop[r].pc = "FOR_NEXT" /\ ~CurrentCall(r).jsonOk]_vars
    /\ [](\A r \in Invocations :
            loop[r].pc = "AWAIT_FOLLOWUP" =>
                /\ loop[r].sent = loop[r].messages
                /\ TurnAnswered(r, loop[r].sent))

\* a turn of two calls whose first failed and whose second ran and succeeded,
\* sent to the model
C2_Witness ==
    \E r \in Invocations :
        /\ loop[r].pc = "AWAIT_FOLLOWUP"
        /\ Len(loop[r].tool_calls) = 2
        /\ LET n == Len(loop[r].sent) IN
           /\ loop[r].sent[n - 1].content.success = FALSE
           /\ loop[r].sent[n].content.success = TRUE

\* C3: a response with zero tool-call requests, the tool_calls field absent or
\* an empty list, ends the loop at that response: no tool runs and no further
\* model turn is requested
C3_ZeroToolCallsTerminate ==
    \A r \in Invocations :
        (/\ loop[r].pc \in {"EXECUTING", "AWAIT_FOLLOWUP", "TERMINATED"}
         /\ Len(loop[r].tool_calls) = 0)
            => loop[r].pc = "TERMINATED"

\* the `required` list of a registered tool
Required(name) ==
    LET k == CHOOSE k \in 1..Len(tools) : tools[k].name = name IN tools[k].required

\* the current call is of a registered tool and has every required argument
CompleteCall(r) ==
    /\ CurrentCall(r).name \in NamesOf(tools)
    /\ Required(CurrentCall(r).name) \subseteq CurrentCall(r).args.present

\* the backend answers that reject the axios promise
Rejections == {"http_error", "network_error"}

\* the position of the first backend answer of this execution that is in S, or 0
FirstIn(r, S) ==
    LET hits == {k \in 1..Len(exec[r].outcomes) : exec[r].outcomes[k] \in S} IN
    IF hits = {} THEN 0 ELSE CHOOSE k \in hits : \A j \in hits : k <= j

\* a create_grant execution that was given an entitlementIds list has settled
GrantSettled(r) ==
    /\ Executing(r)
    /\ Settled(r)
    /\ CurrentCall(r).name = "create_grant"
    /\ "entitlementIds" \in CurrentCall(r).args.present

\* C4: create_grant with N entitlement ids whose backend grant requests all
\* succeed returns success = true with N grant records, the i-th for the i-th
\* id, each with status "created" and with pairwise distinct grant ids; in live
\* mode they are the ids of the N grants the backend created
C4_AllGrantsCreated ==
    \A r \in Invocations :
        (GrantSettled(r) /\ FirstIn(r, Outcomes \ {"ok"}) = 0) =>
            LET ids == CurrentCall(r).args.entitlementIds
                result == exec[r].result
            IN /\ exec[r].phase = "returned"
               /\ result.success
               /\ Len(result.data) = Len(ids)
               /\ \A i \in 1..Len(ids) :
                    /\ result.data[i].entitlementBundleId = ids[i]
                    /\ result.data[i].status = "created"
                    /\ result.data[i].grantId.kind # "undefined"
                    /\ \A j \in 1..Len(ids) :
                            i # j => result.data[i].grantId # result.data[j].grantId
               /\ ~mockMode =>
                    /\ Len(backend.grants) = Len(ids)
                    /\ \A i \in 1..Len(ids) :
                            /\ backend.grants[i].grantId = result.data[i].grantId
                            /\ backend.grants[i].entitlementBundleId = ids[i]

\* two grants of the same bundle in one call, both created
C4_Witness ==
    \E r \in Invocations :
        /\ GrantSettled(r)
        /\ FirstIn(r, Outcomes \ {"ok"}) = 0
        /\ CurrentCall(r).args.entitlementIds = <<"A", "A">>
        /\ exec[r].phase = "returned"
        /\ Len(exec[r].result.data) = 2

\* C5: create_grant for [A, B] where the grant of A succeeds and the grant of
\* B fails returns a result that holds the grant record of A and reports the
\* failure of B
C5_PartialGrantReported ==
    \A r \in Invocations :
        (/\ GrantSettled(r)
         /\ CompleteCall(r)
         /\ CurrentCall(r).args.entitlementIds = <<"A", "B">>
         /\ Len(exec[r].outcomes) >= 2
         /\ exec[r].outcomes[1] = "ok"
         /\ exec[r].outcomes[2] \in Rejections) =>
            /\ exec[r].phase = "returned"
            /\ "data" \in DOMAIN exec[r].result
            /\ \E k \in 1..Len(exec[r].result.data) :
                    /\ exec[r].result.data[k].entitlementBundleId = exec[r].ids[1]
                    /\ exec[r].result.data[k].grantId = backend.grants[1].grantId
            /\ "error" \in DOMAIN exec[r].result \/ ~exec[r].result.success

C7_EnvelopeExclusive ==
    \A r \in Invocations :
        exec[r].phase = "returned" =>
            LET result == exec[r].result IN
            /\ "success" \in DOMAIN result
            /\ result.success => "error" \notin DOMAIN result
            /\ ~result.success =>
                    /\ "error" \in DOMAIN result
                    /\ result.error # <<>>
                    /\ "data" \notin DOMAIN result

\* a failed create_grant that had created a grant before it failed
C7_Witness ==
    \E r \in Invocations :
        /\ exec[r].phase = "returned"
        /\ ~exec[r].result.success
        /\ Len(exec[r].grantResults) >= 1

\* the ToolResult the given mode returns for the call of `frame` when all goes well
SuccessResult(mock, frame) ==
    CASE frame.tool = "list_entitlement_bundles" -> BundlesListed(<<>>)
      [] frame.tool = "create_grant" -> GrantsCreated(frame)
      [] OTHER -> IF mock THEN MessageMocked(frame) ELSE MessageAdded(<<>>)

\* C8: a successful ToolResult has the same top-level keys as the one the
\* other mode (mock or live) returns for the same tool call
C8_SameShape ==
    \A r \in Invocations :
        (Executing(r) /\ CompleteCall(r) /\ exec[r].phase = "returned"
            /\ exec[r].result.success /\ FirstIn(r, Outcomes \ {"ok"}) = 0) =>
            DOMAIN exec[r].result = DOMAIN SuccessResult(~mockMode, exec[r])

\* C9: a call of a registered tool that omits a required argument does not
\* throw, issues no backend request and returns success = false
C9_MissingArgumentFails ==
    \A r \in Invocations :
        (/\ Executing(r)
         /\ CurrentCall(r).name \in NamesOf(tools)
         /\ ~(Required(CurrentCall(r).name) \subseteq CurrentCall(r).args.present)) =>
            /\ exec[r].phase # "thrown"
            /\ backend.requests = <<>>
            /\ exec[r].phase = "returned" => ~exec[r].result.success

\* C10: when a backend request of a tool fails (HTTP error, network error or
\* malformed response), executeTool returns success = false with the error
C10_BackendFailureReported ==
    \A r \in Invocations :
        (Executing(r) /\ CompleteCall(r) /\ Settled(r)
            /\ FirstIn(r, Outcomes \ {"ok"}) > 0) =>
            /\ exec[r].phase = "returned"
            /\ ~exec[r].result.success
            /\ exec[r].result.error # <<>>

\* the backend requests invocation r has issued, in order
RequestsBy(r) ==
    LET RECURSIVE pick(_)
        pick(k) == IF k = 0 THEN <<>>
                   ELSE IF backend.requests[k].by = r
                        THEN Append(pick(k - 1), backend.requests[k])
                        ELSE pick(k - 1)
    IN pick(Len(backend.requests))

\* the executor is waiting for the backend's answer to a request
Waiting(r) == exec[r].phase \in {"list_wait", "grant_wait", "message_wait"}

\* C11: the executor never retries: whatever the backend answers, one
\* execution of list_entitlement_bundles or add_request_message issues at most
\* one backend request, and one execution of create_grant issues at most one
\* grant request per position of entitlementIds, the k-th request being the
\* one for the k-th id; every request issued is answered once
C11_NoRetry ==
    \A r \in Invocations :
        LET reqs == RequestsBy(r) IN
        /\ Len(reqs) = Len(exec[r].outcomes) + (IF Waiting(r) THEN 1 ELSE 0)
        /\ exec[r].tool \in {"list_entitlement_bundles", "add_request_message"} =>
                Len(reqs) <= 1
        /\ exec[r].tool = "create_grant" =>
                /\ Len(reqs) <= Len(exec[r].ids)
                /\ \A k \in 1..Len(reqs) :
                        /\ reqs[k].op = "POST grants"
                        /\ reqs[k].about = exec[r].ids[k]
        /\ exec[r].tool \notin NamesOf(tools) => reqs = <<>>

\* a message post the backend rejected, returned as a failure after one request
C11_Witness ==
    \E r \in Invocations :
        /\ exec[r].tool = "add_request_message"
        /\ exec[r].phase = "returned"
        /\ exec[r].outcomes = <<"http_error">>
        /\ ~exec[r].result.success
        /\ Len(backend.requests) = 1

\* a tool execution of invocation r has started and not yet returned or thrown
InFlight(r) == exec[r].phase \notin {"idle", "returned", "thrown"}

\* the first n tool calls of the current turn have their tool messages, in
\* emission order, right after the turn's assistant message
AnsweredUpTo(r, n) ==
    LET ms == loop[r].messages
        base == Len(ms) - n
    IN /\ base >= 1
       /\ ms[base].role = "assistant"
       /\ ms[base].tool_calls = loop[r].tool_calls
       /\ \A k \in 1..n :
            /\ ms[base + k].role = "tool"
            /\ ms[base + k].tool_call_id = loop[r].tool_calls[k].id

\* C12: within one invocation the tool calls of a turn run one at a time in
\* emission order: call idx starts only when calls 1..idx-1 have finished and
\* are recorded, an execution in flight is the one of the current call, and the
\* next model turn is requested only when every call of the turn has
\* returned or thrown
C12_TurnSequential ==
    /\ [](\A r \in Invocations :
            /\ InFlight(r) => (Executing(r) /\ exec[r].tool = CurrentCall(r).name)
            /\ loop[r].pc \in {"FOR_NEXT", "EXECUTING"} => AnsweredUpTo(r, loop[r].idx - 1)
            /\ loop[r].pc = "AWAIT_FOLLOWUP" =>
                    /\ ~InFlight(r)
                    /\ loop[r].idx = Len(loop[r].tool_calls) + 1
                    /\ AnsweredUpTo(r, Len(loop[r].tool_calls)))
    /\ [][\A r \in Invocations :
            (loop'[r].pc = "EXECUTING" /\ loop[r].pc # "EXECUTING") =>
                /\ ~InFlight(r)
                /\ loop'[r].idx = loop[r].idx
                /\ exec'[r].tool = loop[r].tool_calls[loop[r].idx].name]_vars
    /\ [][\A r \in Invocations :
            (loop'[r].pc = "AWAIT_FOLLOWUP" /\ loop[r].pc # "AWAIT_FOLLOWUP") =>
                /\ loop[r].idx > Len(loop[r].tool_calls)
                /\ ~InFlight(r)]_vars

\* the second call of a turn in flight, the first one finished and recorded
C12_Witness ==
    \E r \in Invocations :
        /\ Executing(r)
        /\ loop[r].idx = 2
        /\ InFlight(r)
        /\ loop[r].messages[Len(loop[r].messages)].role = "tool"
        /\ loop[r].messages[Len(loop[r].messages)].tool_call_id = loop[r].tool_calls[1].id

\* the positions of the assistant messages of a conversation
AssistantAt(ms) == {p \in 1..Len(ms) : ms[p].role = "assistant"}

\* the positions of the tool messages of a conversation
ToolAt(ms) == {q \in 1..Len(ms) : ms[q].role = "tool"}

\* every assistant message is followed by the tool messages of its calls, one
\* per call in emission order, and every tool message answers a call of the
\* nearest assistant message before it
Correlated(ms) ==
    /\ \A p \in AssistantAt(ms) :
            LET calls == ms[p].tool_calls IN
            /\ p + Len(calls) <= Len(ms)
            /\ \A k \in 1..Len(calls) :
                    /\ ms[p + k].role = "tool"
                    /\ ms[p + k].tool_call_id = calls[k].id
            /\ \A k \in 1..Len(calls) :
                    Cardinality({q \in ToolAt(ms) : ms[q].tool_call_id = calls[k].id}) = 1
    /\ \A q \in ToolAt(ms) :
            \E p \in AssistantAt(ms) :
                /\ p < q
                /\ \E k \in 1..Len(ms[p].tool_calls) :
                        /\ ms[p].tool_calls[k].id = ms[q].tool_call_id
                        /\ q = p + k

\* C13: the conversation of every follow-up model request holds, for each
\* assistant message with tool calls, exactly one tool message per call,
\* carrying the call's id, after the assistant message and in emission order,
\* and no tool message whose id no preceding assistant message emitted
C13_ResultsCorrelated ==
    \A r \in Invocations :
        loop[r].pc = "AWAIT_FOLLOWUP" =>
            /\ loop[r].sent = loop[r].messages
            /\ Correlated(loop[r].sent)

\* a follow-up request after two turns of one call each
C13_Witness ==
    \E r \in Invocations :
        /\ loop[r].pc = "AWAIT_FOLLOWUP"
        /\ Cardinality(AssistantAt(loop[r].sent)) = 2
        /\ Cardinality(ToolAt(loop[r].sent)) = 2
        /\ loop[r].sent[Len(loop[r].sent)].tool_call_id = 2

\* C14: every model request of an invocation, the first one and every
\* follow-up after tool execution, carries the accumulated conversation, and
\* that conversation begins with the system instruction built from the
\* request (policy text, justification, requested role, userId, accessRequestId)
C14_RequestCarriesSystemPrompt ==
    \A r \in Invocations :
        \/ loop[r].pc = "AWAIT_INITIAL"
        \/ loop[r].pc = "AWAIT_FOLLOWUP" /\ ToolAt(loop[r].messages) # {}
        => /\ Len(loop[r].sent) >= 1
           /\ loop[r].sent[1] = SystemMessage(systemPrompt(loop[r].webhookData))
           /\ loop[r].pc = "AWAIT_FOLLOWUP" => loop[r].sent = loop[r].messages

\* the backend requests issued in this step are not invocation r's
NoRequestBy(r) ==
    \A k \in 1..Len(backend'.requests) :
        k > Len(backend.requests) => backend'.requests[k].by # r

\* C15: when a decision-model call fails, the initial one or a follow-up, the
\* error leaves processAccessRequest, the invocation is aborted, it runs no
\* further tool, issues no further backend or model request, and the webhook
\* answers HTTP 500 with status 'error'
C15_ModelErrorAborts ==
    /\ [](\A r \in Invocations :
            loop[r].cause = "model" =>
                /\ loop[r].pc = "ABORTED"
                /\ ~(loop[r].http = 200)
                /\ loop[r].http = 500 => loop[r].res = Failed("model"))
    /\ [][\A r \in Invocations :
            loop[r].cause = "model" =>
                /\ exec'[r] = exec[r]
                /\ NoRequestBy(r)
                /\ loop'[r].modelRequests = loop[r].modelRequests
                /\ loop'[r].messages = loop[r].messages]_vars
    /\ \A r \in {1} : (loop[r].cause = "model") ~> (loop[r].http = 500)

\* a follow-up model call that failed after a tool ran, answered with 500
C15_Witness ==
    \E r \in Invocations :
        /\ loop[r].cause = "model"
        /\ loop[r].modelRequests = 2
        /\ ToolAt(loop[r].messages) # {}
        /\ loop[r].http = 500
        /\ loop[r].res.status = "error"

\* the agent loop of invocation r has ended
Ended(r) == loop[r].pc \in {"TERMINATED", "ABORTED"}

\* C16: the webhook handler answers only after the agent loop of the request
\* has ended: a 200 implies the loop reached TERMINATED, a 500 that it was
\* aborted; the response, once sent, is the only one (nothing of the
\* invocation changes after it), and an ended loop is answered
C16_RespondsAfterLoop ==
    /\ [](\A r \in Invocations :
            /\ loop[r].http \in {0, 200, 500}
            /\ (loop[r].http = 0) = (loop[r].res = NoResponse)
            /\ loop[r].http # 0 => (Ended(r) /\ ~InFlight(r))
            /\ loop[r].http = 200 => loop[r].pc = "TERMINATED"
            /\ loop[r].http = 500 => loop[r].pc = "ABORTED")
    /\ [][\A r \in Invocations :
            loop[r].http # 0 => (loop'[r] = loop[r] /\ exec'[r] = exec[r])]_vars
    /\ \A r \in {1} : Ended(r) ~> (loop[r].http # 0)

\* a 200 sent after a loop that ran tools over two model turns and terminated
C16_Witness ==
    \E r \in Invocations :
        /\ loop[r].http = 200
        /\ loop[r].pc = "TERMINATED"
        /\ loop[r].modelRequests >= 2
        /\ ToolAt(loop[r].messages) # {}

ResultOf(r) == IF exec[r].phase = "returned" THEN exec[r].result ELSE Failure(exec[r].thrown)

\* invocation r is inside the for loop of handleToolCalls
InTurn(r) == loop[r].pc \in {"FOR_NEXT", "EXECUTING"}

\* C18: with two invocations interleaved at their await points, the
\* conversation of an invocation grows only by the assistant message of a
\* response to its own model request and by the tool message of its own
\* settled tool execution, it is the conversation that invocation sends to
\* the model, and a step of one invocation leaves the conversation, the
\* requests and the tool execution of the other as they were
C18_ConversationsIsolated ==
    /\ [](\A r \in Invocations :
            /\ Correlated(loop[r].messages) \/ InTurn(r) \/ loop[r].cause = "parse"
            /\ (loop[r].pc = "FOR_NEXT" /\ loop[r].idx > 1) =>
                    loop[r].messages[Len(loop[r].messages)] =
                        ToolMessage(loop[r].tool_calls[loop[r].idx - 1].id, ResultOf(r))
            /\ loop[r].pc = "AWAIT_FOLLOWUP" => loop[r].sent = loop[r].messages)
    /\ [][\A r \in Invocations :
            loop'[r].messages # loop[r].messages =>
                \/ /\ loop[r].pc = "AWAIT_INITIAL"
                   /\ loop'[r].messages \in
                        {<<LoopSystemMessage>>,
                         <<LoopSystemMessage,
                           [role |-> "assistant", tool_calls |-> loop'[r].tool_calls]>>}
                \/ /\ loop[r].pc = "AWAIT_FOLLOWUP"
                   /\ loop'[r].messages =
                        Append(loop[r].messages,
                               [role |-> "assistant", tool_calls |-> loop'[r].tool_calls])
                \/ /\ Executing(r) /\ Settled(r)
                   /\ loop'[r].messages =
                        Append(loop[r].messages, ToolMessage(CurrentCall(r).id, ResultOf(r)))]_vars
    /\ [][\A r \in Invocations : \A q \in Invocations \ {r} :
            loop'[r] # loop[r] => (loop'[q] = loop[q] /\ exec'[q] = exec[q])]_vars

\* both invocations hold a tool result in their conversation, of different
\* tools, while neither has ended
C18_Witness ==
    /\ Cardinality(Invocations) = 2
    /\ \A r \in Invocations :
            /\ loop[r].pc = "AWAIT_FOLLOWUP"
            /\ Cardinality(ToolAt(loop[r].sent)) = 1
    /\ exec[1].tool = "create_grant"
    /\ exec[2].tool = "add_request_message"
    /\ loop[1].sent # loop[2].sent

\* C19: every grant request the backend receives during the processing of a
\* webhook request targets the userId of that request, and every message post
\* targets its accessRequestId, whatever identifiers the model wrote in its
\* tool-call arguments
C19_AuthoritativeIds ==
    \A k \in 1..Len(backend.requests) :
        LET request == backend.requests[k]
            webhookData == loop[request.by].webhookData
        IN /\ request.op = "POST grants" => request.target = webhookData.userId
           /\ request.op = "POST messages" => request.target = webhookData.accessRequestId

\* C20: one access request never results in more than 3 grants: over all
\* create_grant calls of the invocation the backend creates at most 3 grants
C20_AtMostThreeGrants ==
    \A r \in Invocations :
        Invocations = {r} => Len(backend.grants) <= 3

\* the positions <<p, k>> of the list_entitlement_bundles calls of a
\* conversation that have their tool message
ListAnswers(ms) ==
    {pk \in AssistantAt(ms) \X (1..MaxToolCalls) :
        /\ pk[2] <= Len(ms[pk[1]].tool_calls)
        /\ ms[pk[1]].tool_calls[pk[2]].name = "list_entitlement_bundles"
        /\ pk[1] + pk[2] <= Len(ms)
        /\ ms[pk[1] + pk[2]].role = "tool"}

Range(seq) == {seq[k] : k \in 1..Len(seq)}

\* C21: two list_entitlement_bundles calls with the same applicationId that
\* the backend both answers return the same set of bundles, compared without
\* regard to order (the bundles the backend holds do not change), and no step
\* of a list_entitlement_bundles execution changes the backend's grants or
\* messages
C21_ListRepeatable ==
    /\ [](\A r \in Invocations :
            LET ms == loop[r].messages IN
            \A a \in ListAnswers(ms) : \A b \in ListAnswers(ms) :
                LET callA == ms[a[1]].tool_calls[a[2]]
                    callB == ms[b[1]].tool_calls[b[2]]
                    resA == ms[a[1] + a[2]].content
                    resB == ms[b[1] + b[2]].content
                IN (/\ Arg(callA.args, "applicationId") = Arg(callB.args, "applicationId")
                    /\ resA.success /\ resB.success)
                   => Range(resA.data) = Range(resB.data))
    /\ [][\A r \in Invocations :
            (exec'[r] # exec[r] /\ exec'[r].tool = "list_entitlement_bundles") =>
                /\ backend'.grants = backend.grants
                /\ backend'.messages = backend.messages]_vars

\* two listings answered by the live backend in one conversation
C21_Witness ==
    \E r \in Invocations :
        /\ ~mockMode
        /\ Cardinality(ListAnswers(loop[r].messages)) = 2
        /\ \A a \in ListAnswers(loop[r].messages) :
                /\ loop[r].messages[a[1] + a[2]].content.success
                /\ Len(loop[r].messages[a[1] + a[2]].content.data) = 2

IsPrefix(a, b) == Len(a) <= Len(b) /\ SubSeq(b, 1, Len(a)) = a

\* C22: the grants and messages at the backend only grow: every step keeps
\* the grants and messages that exist, also the step in which a later id of
\* a create_grant call is rejected and the call returns success = false, and
\* the step in which a model call fails and the request is aborted
C22_NoRollback ==
    [][/\ IsPrefix(backend.grants, backend'.grants)
       /\ IsPrefix(backend.messages, backend'.messages)]_vars

\* a grant that outlived its call and its request: create_grant returned
\* success = false after its first id was granted, then the model call failed
C22_Witness ==
    \E r \in Invocations :
        /\ exec[r].tool = "create_grant"
        /\ exec[r].outcomes = <<"ok", "http_error">>
        /\ ~exec[r].result.success
        /\ loop[r].cause = "model"
        /\ loop[r].http = 500
        /\ Len(backend.grants) = 1

\* invocation r is waiting for a response of the decision model
AwaitingModel(r) == loop[r].pc \in {"AWAIT_INITIAL", "AWAIT_FOLLOWUP"}

\* C23: the loop has no turn limit of its own: a response that asks for tool
\* calls always starts another turn, whatever the number of turns so far, the
\* turn ends in another model request, and TERMINATED is reached only on a
\* response without tool calls; when every model and tool call returns and
\* the model at last answers without tool calls, the loop terminates
C23_NoTurnLimit ==
    /\ [](\A r \in Invocations : loop[r].pc = "TERMINATED" => ~loop[r].has_tool_calls)
    /\ [][\A r \in Invocations :
            (/\ AwaitingModel(r)
             /\ loop'[r] # loop[r]
             /\ loop'[r].pc # "ABORTED"
             /\ loop'[r].has_tool_calls) =>
                /\ loop'[r].pc = "FOR_NEXT"
                /\ loop'[r].turns = loop[r].turns + 1
                /\ loop'[r].modelRequests = loop[r].modelRequests]_vars
    /\ \A r \in {1} :
            (loop[r].pc = "FOR_NEXT") ~>
                (loop[r].pc = "AWAIT_FOLLOWUP" \/ loop[r].cause = "parse")
    /\ \A r \in {1} :
            (loop[r].pc # "IDLE") ~>
                (loop[r].pc = "TERMINATED" \/ loop[r].cause \in {"model", "parse"})

\* a third model request, made after a second turn of tool calls
C23_Witness ==
    \E r \in Invocations :
        /\ loop[r].pc = "AWAIT_FOLLOWUP"
        /\ loop[r].turns >= 2
        /\ loop[r].modelRequests >= 3
        /\ Cardinality(ToolAt(loop[r].messages)) >= 2

Executed(ms, name) ==
    {pk \in AssistantAt(ms) \X (1..MaxToolCalls) :
        /\ pk[2] <= Len(ms[pk[1]].tool_calls)
        /\ ms[pk[1]].tool_calls[pk[2]].name = name
        /\ pk[1] + pk[2] <= Len(ms)
        /\ ms[pk[1] + pk[2]].role = "tool"}

\* C25: when the loop reaches TERMINATED, add_request_message has been
\* executed at least once for the request; in particular no run creates a
\* grant and terminates without a message posted
C25_DeterminationDelivered ==
    \A r \in Invocations :
        loop[r].pc = "TERMINATED" =>
            /\ Executed(loop[r].messages, "add_request_message") # {}
            /\ backend.grants # <<>> => backend.messages # <<>>

\* C26: the tools are independent: a step of list_entitlement_bundles
\* creates no grant and posts no message, a step of create_grant posts no
\* message, a step of add_request_message creates no grant, and every
\* execution starts from the call's own arguments alone, with nothing left
\* by the execution before it
C26_ToolsIndependent ==
    /\ [][\A r \in Invocations :
            exec'[r] # exec[r] =>
                /\ exec'[r].tool = "list_entitlement_bundles" =>
                        /\ backend'.grants = backend.grants
                        /\ backend'.messages = backend.messages
                /\ exec'[r].tool = "create_grant" => backend'.messages = backend.messages
                /\ exec'[r].tool = "add_request_message" =>
                        backend'.grants = backend.grants]_vars
    /\ [][\A r \in Invocations :
            (loop[r].pc = "FOR_NEXT" /\ loop'[r].pc = "EXECUTING") =>
                LET call == CurrentCall(r)
                    own(name, value) == IF call.name = name THEN value ELSE Undefined
                IN
                /\ exec'[r].tool = call.name
                /\ exec'[r].outcomes = <<>>
                /\ exec'[r].grantResults = <<>>
                /\ exec'[r].applicationId =
                        own("list_entitlement_bundles", Arg(call.args, "applicationId"))
                /\ exec'[r].userId = own("create_grant", Arg(call.args, "userId"))
                /\ exec'[r].reasoning = own("create_grant", Arg(call.args, "reasoning"))
                /\ exec'[r].ids =
                        (IF call.name = "create_grant" THEN ArgIds(call.args).v ELSE <<>>)
                /\ exec'[r].requestId = own("add_request_message", Arg(call.args, "requestId"))
                /\ exec'[r].message = own("add_request_message", Arg(call.args, "message"))]_vars

\* a message posted by an execution that followed a create_grant execution
\* whose grants exist at the backend
C26_Witness ==
    \E r \in Invocations :
        /\ exec[r].tool = "add_request_message"
        /\ exec[r].phase = "returned"
        /\ exec[r].result.success
        /\ Len(backend.grants) = 2
        /\ Len(backend.messages) = 1
        /\ exec[r].ids = <<>>

\* the result of a settled create_grant holds one 'created' record per id of
\* the call, in order
OneRecordPerId(r) ==
    LET ids == ArgIds(CurrentCall(r).args).v IN
    /\ exec[r].phase = "returned"
    /\ exec[r].result.success
    /\ Len(exec[r].result.data) = Len(ids)
    /\ \A k \in 1..Len(ids) :
            /\ exec[r].result.data[k].entitlementBundleId = ids[k]
            /\ exec[r].result.data[k].status = "created"

\* C27: in mock mode no tool execution issues a backend request, for every
\* tool and every input, and create_grant always returns success = true with
\* one grant record per entitlement id
C27_MockAlwaysSucceeds ==
    mockMode =>
        /\ backend = EmptyBackend
        /\ \A r \in Invocations :
                (Executing(r) /\ Settled(r) /\ CurrentCall(r).name = "create_grant") =>
                    OneRecordPerId(r)

\* executeTool found no case for the name of the current call
Undispatched(r) ==
    /\ exec[r].phase = "thrown"
    /\ exec[r].thrown = <<"Unknown MCP tool: ", CurrentCall(r).name>>

\* C28: the registry always lists exactly list_entitlement_bundles,
\* create_grant and add_request_message, in that order; no step changes it;
\* and executeTool dispatches the name of a call exactly when the registry
\* holds it
C28_RegistryMatchesDispatch ==
    /\ [](/\ Len(tools) = 3
          /\ [k \in 1..Len(tools) |-> tools[k].name] =
                <<"list_entitlement_bundles", "create_grant", "add_request_message">>
          /\ \A r \in Invocations :
                Executing(r) => (~Undispatched(r) <=> CurrentCall(r).name \in NamesOf(tools)))
    /\ [][tools' = tools]_vars

\* a registered tool that was dispatched and threw inside its own method
C28_Witness ==
    \E r \in Invocations :
        /\ Executing(r)
        /\ CurrentCall(r).name \in NamesOf(tools)
        /\ exec[r].phase = "thrown"
        /\ ~Undispatched(r)

\* the for loop of invocation r is at a call whose arguments do not parse
AtUnparseable(r) ==
    /\ loop[r].pc = "FOR_NEXT"
    /\ loop[r].idx <= Len(loop[r].tool_calls)
    /\ ~CurrentCall(r).jsonOk

\* C29: a tool call whose arguments are not valid JSON is not turned into a
\* failed tool result: the parse error leaves handleToolCalls and aborts the
\* request; the conversation ends with the results of the calls before it
\* and holds none for it or for the calls after it, no tool runs for it, and
\* what the earlier calls did at the backend stays
C29_ParseErrorAborts ==
    /\ [][\A r \in Invocations :
            (AtUnparseable(r) /\ loop'[r] # loop[r]) =>
                /\ loop'[r].pc = "ABORTED"
                /\ loop'[r].cause = "parse"
                /\ loop'[r].messages = loop[r].messages
                /\ exec'[r] = exec[r]
                /\ backend' = backend]_vars
    /\ [](\A r \in Invocations :
            loop[r].cause = "parse" =>
                /\ loop[r].pc = "ABORTED"
                /\ AnsweredUpTo(r, loop[r].idx - 1)
                /\ loop[r].idx <= Len(loop[r].tool_calls)
                /\ loop[r].http \in {0, 500})
    /\ [][\A r \in Invocations :
            loop[r].cause = "parse" =>
                /\ loop'[r].messages = loop[r].messages
                /\ loop'[r].modelRequests = loop[r].modelRequests
                /\ exec'[r] = exec[r]
                /\ IsPrefix(backend.grants, backend'.grants)
                /\ IsPrefix(backend.messages, backend'.messages)
                /\ NoRequestBy(r)]_vars

\* the second call of a turn did not parse: the request is answered with 500,
\* the grants of the first call exist and only the first call has a result
C29_Witness ==
    \E r \in Invocations :
        /\ loop[r].cause = "parse"
        /\ loop[r].idx = 2
        /\ loop[r].http = 500
        /\ Len(backend.grants) = 2
        /\ Cardinality(ToolAt(loop[r].messages)) = 1
        /\ loop[r].messages[Len(loop[r].messages)].content.success

\* the current call is create_grant with entitlementIds given as an empty list
EmptyGrantCall(r) ==
    /\ Executing(r)
    /\ CurrentCall(r).name = "create_grant"
    /\ "entitlementIds" \in CurrentCall(r).args.present
    /\ CurrentCall(r).args.entitlementIds = <<>>

\* C30: create_grant with an empty entitlementIds list issues no backend
\* request and returns success = true with an empty list of grants, in mock
\* and in live mode
C30_EmptyIdsSucceed ==
    \A r \in Invocations :
        EmptyGrantCall(r) =>
            /\ exec[r].phase = "returned"
            /\ exec[r].result.success
            /\ exec[r].result.data = <<>>
            /\ exec[r].outcomes = <<>>
            /\ backend = EmptyBackend

\* a live create_grant with an empty list and the other arguments given
C30_Witness ==
    \E r \in Invocations :
        /\ ~mockMode
        /\ EmptyGrantCall(r)
        /\ CompleteCall(r)
        /\ exec[r].phase = "returned"
        /\ exec[r].result = [success |-> TRUE, data |-> <<>>, reasoning |-> "least privilege"]

====
